---------------------------- MODULE Spec2Model ----------------------------
(***************************************************************************)
(* The three driver scripts of the repository as one sequential machine:   *)
(*   T  src/TLSTM/test_tlstm.py   (main, train, test, _eval)               *)
(*   K  src/task.py               (main, train, test, _eval, check_inputs) *)
(*   M  src/mix_features/task.py  (main)                                   *)
(* A run starts in one function of one script (entry) and executes its     *)
(* statements one action at a time.  Calls into the tensor framework       *)
(* (forward, backward, optimizer step, ...) are recorded in trace in the   *)
(* order the script issues them.                                           *)
(***************************************************************************)
EXTENDS Integers, Sequences, FiniteSets, TLC

\* ---------------------------------------------------------------- bounds
MaxData == 2        \* most data items (batches) in a pickled collection
MaxEpochs == 2      \* largest --train_epochs tried
StepLoss == 2       \* loss.item() of one training step
InputDim == 3       \* feature width of the loaded data, train_data[0].shape[2]

\* ------------------------------------------------------------- variables
VARIABLES
    entry,      \* [script, fn]: the function the run was started in
    args,       \* the parsed command-line flags
    apex,       \* whether "from apex import amp" succeeds
    args_global, \* whether the module-level name args is bound
    disk,       \* [weights, config]: pytorch_model.bin and <conf> on disk
    data,       \* features/times/labels held by the running function
    pc,         \* position in the running function
    stack,      \* return positions of the callers
    err,        \* the exception that ended the run, "" if none
    config,     \* the model config object
    weights,    \* model parameters: [base, steps]
    mode,       \* "train" after model.train(), "eval" after model.eval()
    grad,       \* [n, clipped]: accumulated backward passes, clipped or not
    data_idxs,  \* the index list of train/_eval
    epoch,      \* epochs completed by the training loop
    i,          \* position in data_idxs (1-based) of the running loop
    loss,       \* loss of the current step
    tr_loss,    \* the loss accumulator
    logged,     \* the <<tr_loss, epoch+1>> pairs logged as training loss
    acc,        \* _eval's accumulators [y_trues, y_preds, gs_labels], or None
    ret,        \* value returned by the last _eval
    evalMode,   \* the mode argument of _eval in T ("train"/"test")
    trace       \* framework/file-system calls issued so far, <<op, index>>

vars == <<entry, args, apex, args_global, disk, data, pc, stack, err, config, weights,
          mode, grad, data_idxs, epoch, i, loss, tr_loss, logged, acc, ret,
          evalMode, trace>>

inputs == <<entry, args, apex, args_global>>
loopv == <<data_idxs, epoch, i, loss, tr_loss, logged>>
evalv == <<acc, ret, evalMode>>
modelv == <<config, weights, mode, grad>>

\* ------------------------------------------------------------ data model
None == [none |-> TRUE]
NoFile == [nofile |-> TRUE]
NoData == [nf |-> 0, nt |-> 0, labels |-> <<>>]

\* The one-hot label rows of data item k (0-based): a fixture standing for
\* the pickled label arrays.  Item 0 holds one row of class 0, item 1 a row
\* of class 1 followed by a row of class 0, and so on alternately.
LabelBatch(k) ==
    IF k % 2 = 0 THEN << <<1, 0>> >> ELSE << <<0, 1>>, <<1, 0>> >>

\* Every features/times/labels triple with at most MaxData items each.
DataSets ==
    { [nf |-> a, nt |-> b, labels |-> [k \in 1..c |-> LabelBatch(k - 1)]] :
        a \in 0..MaxData, b \in 0..MaxData, c \in 0..MaxData }

FreshWeights == [base |-> "init", steps |-> 0]
OldWeights == [base |-> "old", steps |-> 0]
OldConfig == [input_dim |-> InputDim, output_dim |-> 3]
Disks == { [weights |-> NoFile, config |-> NoFile],
           [weights |-> OldWeights, config |-> OldConfig] }

ZeroGrad == [n |-> 0, clipped |-> FALSE]

Ev(op) == <<op, -1>>
Emit(op) == trace' = Append(trace, Ev(op))
EmitAt(op, idx) == trace' = Append(trace, <<op, idx>>)

\* len(features) == len(times) == len(labels)
SameLength(d) == d.nf = d.nt /\ d.nt = Len(d.labels)

\* list(range(len(features)))
RangeList(n) == [k \in 1..n |-> k - 1]

\* an exception propagates out of every frame and ends the run
Raise(e) == /\ pc' = "error"
            /\ err' = e
            /\ stack' = <<>>

Call(target, back) == /\ pc' = target
                      /\ stack' = <<back>> \o stack
                      /\ err' = err

Return == /\ pc' = Head(stack)
          /\ stack' = Tail(stack)
          /\ err' = err

Goto(l) == /\ pc' = l
           /\ UNCHANGED <<stack, err>>


\* ----------------------------------------------------------------- Init
ModelTypes == {"lstm", "tlstm", "clstm", "ctlstm", "gru"}

\* --train_epochs when the flag is not given
DefaultEpochs == 50

\* The flags of K as argparse leaves them when none is given; model is
\* --model.  T has the same flags and defaults except --model, which no
\* function of T reads.  do_eval is a flag of M only.
DefaultArgs == [do_train |-> FALSE, do_test |-> FALSE, do_eval |-> FALSE,
                fp16 |-> FALSE, train_epochs |-> DefaultEpochs,
                model |-> "lstm"]

\* The flags of M when none is given; model is --model_type.
DefaultArgsM == [DefaultArgs EXCEPT !.model = "clstm"]

EmptyDisk == [weights |-> NoFile, config |-> NoFile]

\* Flags each entry point reads; the others stay at their defaults.
MainArgsT ==
    { [DefaultArgs EXCEPT !.do_train = a, !.do_test = b, !.fp16 = c,
                          !.train_epochs = e, !.model = "tlstm"] :
        a \in BOOLEAN, b \in BOOLEAN, c \in BOOLEAN, e \in 0..MaxEpochs }
MainArgsK ==
    { [DefaultArgs EXCEPT !.do_train = a, !.do_test = b, !.model = m] :
        a \in BOOLEAN, b \in BOOLEAN, m \in ModelTypes }
MainArgsM ==
    { [DefaultArgsM EXCEPT !.do_train = a, !.do_test = b, !.do_eval = c,
                           !.model = m] :
        a \in BOOLEAN, b \in BOOLEAN, c \in BOOLEAN, m \in ModelTypes }
TrainArgs ==
    { [DefaultArgs EXCEPT !.fp16 = c, !.train_epochs = e] :
        c \in BOOLEAN, e \in 0..MaxEpochs }

EntryLabel(e) ==
    IF e.script = "T" THEN
        CASE e.fn = "main" -> "T_main"
          [] e.fn = "train" -> "T_train"
          [] e.fn = "test" -> "T_test"
          [] OTHER -> "T_eval"
    ELSE IF e.script = "K" THEN
        CASE e.fn = "main" -> "K_main"
          [] e.fn = "train" -> "K_train"
          [] e.fn = "test" -> "K_test"
          [] OTHER -> "K_eval"
    ELSE "M_main"

\* State shared by every entry point before its first statement.
InitCommon ==
    /\ pc = EntryLabel(entry)
    /\ err = ""
    /\ config = None
    /\ data_idxs = <<>>
    /\ epoch = 0
    /\ i = 0
    /\ loss = 0
    /\ tr_loss = 0
    /\ logged = <<>>
    /\ acc = None
    /\ ret = None
    /\ trace = <<>>

\* A run of a script's main: __main__ has bound the module-level args
\* before calling main; nothing is loaded and no model is built yet.
InitMain ==
    /\ \/ entry = [script |-> "T", fn |-> "main"] /\ args \in MainArgsT
                                                   /\ disk \in Disks
       \/ entry = [script |-> "K", fn |-> "main"] /\ args \in MainArgsK
                                                   /\ disk = EmptyDisk
       \/ entry = [script |-> "M", fn |-> "main"] /\ args \in MainArgsM
                                                   /\ disk = EmptyDisk
    /\ apex \in BOOLEAN
    /\ args_global = TRUE
    /\ data = NoData
    /\ stack = <<>>
    /\ weights = None
    /\ grad = ZeroGrad
    /\ mode = "none"
    /\ evalMode = "none"

\* A direct call of train, test or _eval with any features/times/labels
\* triple and a model in either mode that may still hold gradients of an
\* earlier backward pass.  The functions are then called on the imported
\* module, whose global args is bound only if the caller assigned it.
InitCall ==
    /\ entry \in { [script |-> s, fn |-> f] :
                     s \in {"T", "K"}, f \in {"train", "test", "_eval"} }
    /\ IF entry.fn = "train"
          THEN args \in TrainArgs /\ apex \in BOOLEAN
          ELSE args = DefaultArgs /\ apex = FALSE
    /\ args_global \in BOOLEAN
    /\ disk = EmptyDisk
    /\ data \in DataSets
    /\ stack = <<"done">>
    /\ weights = FreshWeights
    /\ grad \in {ZeroGrad, [n |-> 1, clipped |-> FALSE]}
    /\ mode \in {"train", "eval"}
    /\ evalMode = IF entry.fn = "train" THEN "none" ELSE "test"

Init == (InitMain \/ InitCall) /\ InitCommon

\* ============================================ T: src/TLSTM/test_tlstm.py
\* ------------------------------------------------------------- T: train

\* train, lines 67-77: the length assertion, then the index list and the
\* optimizer.
T_TrainAssert ==
    /\ pc = "T_train"
    /\ IF SameLength(data)
          THEN /\ data_idxs' = RangeList(data.nf)
               /\ Goto("T_train_fp16")
          ELSE /\ Raise("AssertionError")
               /\ UNCHANGED data_idxs
    /\ UNCHANGED <<inputs, disk, data, modelv, epoch, i, loss, tr_loss,
                   logged, evalv, trace>>

\* Variant of T_ImportFails: the ImportError is swallowed.
T_ImportFails_swallowed == FALSE

\* train, lines 89-93: "from apex import amp" is attempted only under
\* --fp16 and its ImportError is re-raised.
T_ImportFails == args.fp16 /\ ~apex

\* train, lines 89-99: the optional apex import, then tr_loss = 0 and
\* model.zero_grad() ahead of the loop.
T_TrainFp16 ==
    /\ pc = "T_train_fp16"
    /\ IF T_ImportFails
          THEN /\ Raise("ImportError")
               /\ UNCHANGED <<tr_loss, epoch, grad, trace>>
          ELSE /\ tr_loss' = 0
               /\ epoch' = 0
               /\ grad' = ZeroGrad
               /\ IF args.fp16 THEN Emit("amp_initialize")
                               ELSE UNCHANGED trace
               /\ Goto("T_epoch")
    /\ UNCHANGED <<inputs, disk, data, config, weights, mode, data_idxs, i,
                   loss, logged, evalv>>

\* Variant of T_EpochHead: train returns without evaluating.
T_EpochHead_noEval ==
    /\ pc = "T_epoch"
    /\ IF epoch < args.train_epochs
          THEN /\ i' = 1
               /\ Goto("T_item")
          ELSE /\ Return
               /\ UNCHANGED i
    /\ UNCHANGED <<inputs, disk, data, modelv, data_idxs, epoch, loss,
                   tr_loss, logged, evalv, trace>>

\* train, line 100 and line 127: the next epoch starts (data_idxs is not
\* shuffled, line 102 is commented out), or the loop is over and
\* _eval(..., "train") is called.
T_EpochHead ==
    /\ pc = "T_epoch"
    /\ IF epoch < args.train_epochs
          THEN /\ i' = 1
               /\ Goto("T_item")
               /\ UNCHANGED evalMode
          ELSE /\ evalMode' = "train"
               /\ Call("T_eval", "T_train_ret")
               /\ UNCHANGED i
    /\ UNCHANGED <<inputs, disk, data, modelv, data_idxs, epoch, loss,
                   tr_loss, logged, acc, ret, trace>>

\* Variant of T_ItemHead: the accumulator restarts with every epoch.
T_ItemHead_resetsLoss ==
    /\ pc = "T_item"
    /\ IF i <= Len(data_idxs)
          THEN /\ Goto("T_forward")
               /\ UNCHANGED <<epoch, logged, tr_loss>>
          ELSE /\ logged' = Append(logged, <<tr_loss, epoch + 1>>)
               /\ tr_loss' = 0
               /\ epoch' = epoch + 1
               /\ Goto("T_epoch")
    /\ UNCHANGED <<inputs, disk, data, modelv, data_idxs, i, loss, evalv,
                   trace>>

\* train, line 103 and line 125: the next data index of the epoch, or the
\* epoch's log line.
T_ItemHead ==
    /\ pc = "T_item"
    /\ IF i <= Len(data_idxs)
          THEN /\ Goto("T_forward")
               /\ UNCHANGED <<epoch, logged>>
          ELSE /\ logged' = Append(logged, <<tr_loss, epoch + 1>>)
               /\ epoch' = epoch + 1
               /\ Goto("T_epoch")
    /\ UNCHANGED <<inputs, disk, data, modelv, data_idxs, i, loss, tr_loss,
                   evalv, trace>>

\* Variant of T_Forward: the forward pass without model.train().
T_Forward_keepsMode ==
    /\ pc = "T_forward"
    /\ loss' = StepLoss
    /\ EmitAt("forward", data_idxs[i])
    /\ Goto("T_backward")
    /\ UNCHANGED <<inputs, disk, data, modelv, data_idxs, epoch, i, tr_loss,
                   logged, evalv>>

\* train, lines 105-116: model.train() and the forward pass on the item.
T_Forward ==
    /\ pc = "T_forward"
    /\ mode' = "train"
    /\ loss' = StepLoss
    /\ EmitAt("forward", data_idxs[i])
    /\ Goto("T_backward")
    /\ UNCHANGED <<inputs, disk, data, config, weights, grad, data_idxs,
                   epoch, i, tr_loss, logged, evalv>>

\* train, lines 117-121: loss.backward() (scaled under fp16); the gradient
\* accumulates into whatever the parameters already hold.
T_Backward ==
    /\ pc = "T_backward"
    /\ grad' = [n |-> grad.n + 1, clipped |-> FALSE]
    /\ EmitAt("backward", data_idxs[i])
    /\ Goto("T_step")
    /\ UNCHANGED <<inputs, disk, data, config, weights, mode, loopv, evalv>>

\* train, line 122: optimizer.step().
T_OptStep ==
    /\ pc = "T_step"
    /\ weights' = [weights EXCEPT !.steps = @ + 1]
    /\ EmitAt("step", data_idxs[i])
    /\ Goto("T_zero")
    /\ UNCHANGED <<inputs, disk, data, config, mode, grad, loopv, evalv>>

\* Variant of T_ZeroGrad: the gradients are not reset.
T_ZeroGrad_keepsGrad ==
    /\ pc = "T_zero"
    /\ tr_loss' = tr_loss + loss
    /\ EmitAt("zero_grad", data_idxs[i])
    /\ i' = i + 1
    /\ Goto("T_item")
    /\ UNCHANGED <<inputs, disk, data, modelv, data_idxs, epoch, loss,
                   logged, evalv>>

\* train, lines 123-124: model.zero_grad() and tr_loss += loss.item().
T_ZeroGrad ==
    /\ pc = "T_zero"
    /\ grad' = ZeroGrad
    /\ tr_loss' = tr_loss + loss
    /\ EmitAt("zero_grad", data_idxs[i])
    /\ i' = i + 1
    /\ Goto("T_item")
    /\ UNCHANGED <<inputs, disk, data, config, weights, mode, data_idxs,
                   epoch, loss, logged, evalv>>

\* train returns after its _eval call (line 127 is its last statement).
T_TrainReturn ==
    /\ pc = "T_train_ret"
    /\ Return
    /\ UNCHANGED <<inputs, disk, data, modelv, loopv, evalv, trace>>

\* ------------------------------------------------------ T: _eval, test

\* label[:, 1]: the second column of a batch of label rows
SecondColumn(batch) == [r \in 1..Len(batch) |-> batch[r][2]]

\* np.argmax(label, axis=1): per row, the first position of the maximum
ArgMaxRows(batch) ==
    [r \in 1..Len(batch) |-> IF batch[r][1] >= batch[r][2] THEN 0 ELSE 1]

\* the model's per-row outputs for data item idx
Predict(idx, batch) == [r \in 1..Len(batch) |-> <<idx, r>>]

\* the rows of the data items idxs, concatenated in that order
RECURSIVE Rows(_, _)
Rows(labels, idxs) ==
    IF idxs = <<>> THEN <<>>
    ELSE labels[Head(idxs) + 1] \o Rows(labels, Tail(idxs))

\* roc_auc_score(..., average='macro') is defined only when every label
\* column holds both classes
BothClasses(rows) ==
    /\ \E r \in 1..Len(rows) : rows[r][2] = 1
    /\ \E r \in 1..Len(rows) : rows[r][2] = 0

\* _eval, lines 20-30: model.eval(), the length assertion, the index list
\* and the empty accumulators.
T_EvalStart ==
    /\ pc = "T_eval"
    /\ mode' = "eval"
    /\ IF SameLength(data)
          THEN /\ data_idxs' = RangeList(data.nf)
               /\ acc' = None
               /\ i' = 1
               /\ Goto("T_eval_item")
          ELSE /\ Raise("AssertionError")
               /\ UNCHANGED <<data_idxs, acc, i>>
    /\ UNCHANGED <<inputs, disk, data, config, weights, grad, epoch, loss,
                   tr_loss, logged, ret, evalMode, trace>>

\* _eval, lines 32-56: the tensors of the next index are moved to
\* args.device, args being the module's global (_eval has no such
\* parameter; NameError when it is unbound), then one forward pass under
\* no_grad for the next index,
\* its rows appended to the accumulators; after the last index the loop
\* falls through to the metrics.
T_EvalItem ==
    /\ pc = "T_eval_item"
    /\ IF i <= Len(data_idxs) /\ ~args_global
          THEN /\ Raise("NameError")
               /\ UNCHANGED <<acc, i, trace>>
          ELSE IF i <= Len(data_idxs)
          THEN LET idx == data_idxs[i]
                   label == data.labels[idx + 1]
               IN /\ EmitAt(IF evalMode = "train" THEN "train_eval_forward"
                                                  ELSE "test_eval_forward", idx)
                  /\ acc' = IF acc = None
                              THEN [y_trues |-> SecondColumn(label),
                                    y_preds |-> Predict(idx, label),
                                    gs_labels |-> label]
                              ELSE [y_trues |-> acc.y_trues \o SecondColumn(label),
                                    y_preds |-> acc.y_preds \o Predict(idx, label),
                                    gs_labels |-> acc.gs_labels \o label]
                  /\ i' = i + 1
                  /\ Goto("T_eval_item")
          ELSE /\ Goto("T_eval_metrics")
               /\ UNCHANGED <<acc, i, trace>>
    /\ UNCHANGED <<inputs, disk, data, modelv, data_idxs, epoch, loss,
                   tr_loss, logged, ret, evalMode>>

\* _eval, lines 58-63: accuracy and AUC over the accumulated rows.  With
\* no data item the accumulators are still None and accuracy_score raises;
\* with one class only the macro AUC is undefined, which the metric
\* library reports by raising or by a warning depending on its version.
T_EvalMetrics ==
    /\ pc = "T_eval_metrics"
    /\ \/ /\ acc = None
          /\ Raise("TypeError")
          /\ UNCHANGED <<ret, trace>>
       \/ /\ acc # None
          /\ ~BothClasses(acc.gs_labels)
          /\ Raise("ValueError")
          /\ UNCHANGED <<ret, trace>>
       \/ /\ acc # None
          /\ Emit(IF evalMode = "train" THEN "train_eval_metrics"
                                        ELSE "test_eval_metrics")
          /\ ret' = None
          /\ Return
    /\ UNCHANGED <<inputs, disk, data, modelv, loopv, acc, evalMode>>

\* test, lines 131-138: the length assertion, then _eval(..., "test").
T_Test ==
    /\ pc = "T_test"
    /\ IF SameLength(data)
          THEN /\ data_idxs' = RangeList(data.nf)
               /\ evalMode' = "test"
               /\ Call("T_eval", "T_test_ret")
          ELSE /\ Raise("AssertionError")
               /\ UNCHANGED <<data_idxs, evalMode>>
    /\ UNCHANGED <<inputs, disk, data, modelv, epoch, i, loss, tr_loss,
                   logged, acc, ret, trace>>

T_TestReturn ==
    /\ pc = "T_test_ret"
    /\ Return
    /\ UNCHANGED <<inputs, disk, data, modelv, loopv, evalv, trace>>

\* -------------------------------------------------------------- T: main

\* main, lines 143-154: seeds, then with do_train the three training
\* pickles are loaded.
T_Main ==
    /\ pc = "T_main"
    /\ IF args.do_train
          THEN /\ \E d \in DataSets : data' = d
               /\ Emit("load_train")
               /\ Goto("T_config")
          ELSE /\ Goto("T_main_test")
               /\ UNCHANGED <<data, trace>>
    /\ UNCHANGED <<inputs, disk, modelv, loopv, evalv>>

\* main, lines 156-163: the config from the first data item's shapes
\* (IndexError on an empty collection), the model, and the call of train.
T_InitModel ==
    /\ pc = "T_config"
    /\ IF data.nf = 0 \/ Len(data.labels) = 0
          THEN /\ Raise("IndexError")
               /\ UNCHANGED <<config, weights, mode, grad, trace>>
          ELSE /\ config' = [input_dim |-> InputDim,
                             output_dim |-> Len(data.labels[1][1])]
               /\ weights' = FreshWeights
               /\ mode' = "train"
               /\ grad' = ZeroGrad
               /\ Emit("build_model")
               /\ Call("T_train", "T_save_weights")
    /\ UNCHANGED <<inputs, disk, data, loopv, evalv>>

\* main, line 165: torch.save(model.state_dict(), .../pytorch_model.bin)
T_SaveWeights ==
    /\ pc = "T_save_weights"
    /\ disk' = [disk EXCEPT !.weights = weights]
    /\ Emit("save_weights")
    /\ Goto("T_save_config")
    /\ UNCHANGED <<inputs, data, modelv, loopv, evalv>>

\* main, line 166: pkl_save(config, .../tlstm.conf)
T_SaveConfig ==
    /\ pc = "T_save_config"
    /\ disk' = [disk EXCEPT !.config = config]
    /\ Emit("save_config")
    /\ Goto("T_main_test")
    /\ UNCHANGED <<inputs, data, modelv, loopv, evalv>>

\* main, lines 169-172: with do_test the three test pickles are loaded.
T_MainTest ==
    /\ pc = "T_main_test"
    /\ IF args.do_test
          THEN /\ \E d \in DataSets : data' = d
               /\ Emit("load_test")
               /\ Goto("T_load_config")
          ELSE /\ Goto("done")
               /\ UNCHANGED <<data, trace>>
    /\ UNCHANGED <<inputs, disk, modelv, loopv, evalv>>

\* main, lines 173-174: the config is read back from disk and a new model
\* is built from it.
T_LoadConfig ==
    /\ pc = "T_load_config"
    /\ IF disk.config = NoFile
          THEN /\ Raise("FileNotFoundError")
               /\ UNCHANGED <<config, weights, mode, grad, trace>>
          ELSE /\ config' = disk.config
               /\ weights' = FreshWeights
               /\ mode' = "train"
               /\ grad' = ZeroGrad
               /\ Emit("load_config")
               /\ Goto("T_load_weights")
    /\ UNCHANGED <<inputs, disk, data, loopv, evalv>>

\* Variant of T_LoadWeights: the state dict is read but not loaded into
\* the model.
T_LoadWeights_notApplied ==
    /\ pc = "T_load_weights"
    /\ IF disk.weights = NoFile
          THEN /\ Raise("FileNotFoundError")
               /\ UNCHANGED trace
          ELSE /\ Emit("load_weights")
               /\ Call("T_test", "done")
    /\ UNCHANGED <<inputs, disk, data, modelv, loopv, evalv>>

\* main, lines 175-177: the saved state dict is loaded into the new model
\* and test is called on it.
T_LoadWeights ==
    /\ pc = "T_load_weights"
    /\ IF disk.weights = NoFile
          THEN /\ Raise("FileNotFoundError")
               /\ UNCHANGED <<weights, trace>>
          ELSE /\ weights' = disk.weights
               /\ Emit("load_weights")
               /\ Call("T_test", "done")
    /\ UNCHANGED <<inputs, disk, data, config, mode, grad, loopv, evalv>>

T_Next ==
    \/ T_TrainAssert \/ T_TrainFp16 \/ T_EpochHead \/ T_ItemHead
    \/ T_Forward \/ T_Backward \/ T_OptStep \/ T_ZeroGrad \/ T_TrainReturn
    \/ T_EvalStart \/ T_EvalItem \/ T_EvalMetrics \/ T_Test \/ T_TestReturn
    \/ T_Main \/ T_InitModel \/ T_SaveWeights \/ T_SaveConfig
    \/ T_MainTest \/ T_LoadConfig \/ T_LoadWeights

\* ======================================================= K: src/task.py
\* ------------------------------------------------------------- K: train

\* Variant of check_inputs: the times collection is left out.
check_inputs_withoutTimes(d) == Cardinality({d.nf, Len(d.labels)}) = 1

\* check_inputs, lines 48-55: the lengths of all inputs form a one-element
\* set
check_inputs(d) == Cardinality({d.nf, d.nt, Len(d.labels)}) = 1

\* Variant of Shuffled: indices drawn with replacement.
Shuffled_withReplacement(s) ==
    { [k \in 1..Len(s) |-> s[p[k]]] : p \in [1..Len(s) -> 1..Len(s)] }

\* np.random.shuffle(data_idxs), line 88: the outcomes of an in-place
\* shuffle are the rearrangements of the list
Shuffled(s) ==
    { [k \in 1..Len(s) |-> s[p[k]]] :
        p \in { q \in [1..Len(s) -> 1..Len(s)] :
                  \A a, b \in 1..Len(s) : a # b => q[a] # q[b] } }

\* train, lines 59-64: check_inputs, the index list and the optimizer.
K_TrainCheck ==
    /\ pc = "K_train"
    /\ IF check_inputs(data)
          THEN /\ data_idxs' = RangeList(data.nf)
               /\ Goto("K_train_fp16")
          ELSE /\ Raise("AssertionError")
               /\ UNCHANGED data_idxs
    /\ UNCHANGED <<inputs, disk, data, modelv, epoch, i, loss, tr_loss,
                   logged, evalv, trace>>

\* train, lines 75-79: "from apex import amp" is attempted only under
\* --fp16 and its ImportError is re-raised.
K_ImportFails == args.fp16 /\ ~apex

\* train, lines 75-85: the optional apex import, then tr_loss = 0 and
\* model.zero_grad() ahead of the loop.
K_TrainFp16 ==
    /\ pc = "K_train_fp16"
    /\ IF K_ImportFails
          THEN /\ Raise("ImportError")
               /\ UNCHANGED <<tr_loss, epoch, grad, trace>>
          ELSE /\ tr_loss' = 0
               /\ epoch' = 0
               /\ grad' = ZeroGrad
               /\ IF args.fp16 THEN Emit("amp_initialize")
                               ELSE UNCHANGED trace
               /\ Goto("K_epoch")
    /\ UNCHANGED <<inputs, disk, data, config, weights, mode, data_idxs, i,
                   loss, logged, evalv>>

\* train, lines 86-88 and line 113: the next epoch starts with a shuffle
\* of data_idxs, or the loop is over and test is called on the training
\* data.
K_EpochHead ==
    /\ pc = "K_epoch"
    /\ IF epoch < args.train_epochs
          THEN /\ data_idxs' \in Shuffled(data_idxs)
               /\ i' = 1
               /\ Goto("K_item")
          ELSE /\ Call("K_test", "K_train_ret")
               /\ UNCHANGED <<data_idxs, i>>
    /\ UNCHANGED <<inputs, disk, data, modelv, epoch, loss, tr_loss, logged,
                   evalv, trace>>

\* train, line 89 and line 112: the next data index of the epoch, or the
\* epoch's log line.
K_ItemHead ==
    /\ pc = "K_item"
    /\ IF i <= Len(data_idxs)
          THEN /\ Goto("K_forward")
               /\ UNCHANGED <<epoch, logged>>
          ELSE /\ logged' = Append(logged, <<tr_loss, epoch + 1>>)
               /\ epoch' = epoch + 1
               /\ Goto("K_epoch")
    /\ UNCHANGED <<inputs, disk, data, modelv, data_idxs, i, loss, tr_loss,
                   evalv, trace>>

\* train, lines 91-101: model.train() and the forward pass on the item.
K_Forward ==
    /\ pc = "K_forward"
    /\ mode' = "train"
    /\ loss' = StepLoss
    /\ EmitAt("forward", data_idxs[i])
    /\ Goto("K_backward")
    /\ UNCHANGED <<inputs, disk, data, config, weights, grad, data_idxs,
                   epoch, i, tr_loss, logged, evalv>>

\* train, lines 102-104 and 107: the backward pass on either branch.
K_Backward ==
    /\ pc = "K_backward"
    /\ grad' = [n |-> grad.n + 1, clipped |-> FALSE]
    /\ EmitAt("backward", data_idxs[i])
    /\ Goto("K_clip")
    /\ UNCHANGED <<inputs, disk, data, config, weights, mode, loopv, evalv>>

\* train, lines 105 and 108: clip_grad_norm_(..., args.max_grad_norm) on
\* either branch.
K_Clip ==
    /\ pc = "K_clip"
    /\ grad' = [grad EXCEPT !.clipped = TRUE]
    /\ EmitAt("clip", data_idxs[i])
    /\ Goto("K_step")
    /\ UNCHANGED <<inputs, disk, data, config, weights, mode, loopv, evalv>>

\* train, line 109: optimizer.step().
K_OptStep ==
    /\ pc = "K_step"
    /\ weights' = [weights EXCEPT !.steps = @ + 1]
    /\ EmitAt("step", data_idxs[i])
    /\ Goto("K_zero")
    /\ UNCHANGED <<inputs, disk, data, config, mode, grad, loopv, evalv>>

\* train, lines 110-111: model.zero_grad() and tr_loss += loss.item().
K_ZeroGrad ==
    /\ pc = "K_zero"
    /\ grad' = ZeroGrad
    /\ tr_loss' = tr_loss + loss
    /\ EmitAt("zero_grad", data_idxs[i])
    /\ i' = i + 1
    /\ Goto("K_item")
    /\ UNCHANGED <<inputs, disk, data, config, weights, mode, data_idxs,
                   epoch, loss, logged, evalv>>

\* train returns after its test call (line 113 is its last statement).
K_TrainReturn ==
    /\ pc = "K_train_ret"
    /\ Return
    /\ UNCHANGED <<inputs, disk, data, modelv, loopv, evalv, trace>>

\* ------------------------------------------------------ K: _eval, test

\* _eval, lines 17-21: model.eval(), the empty accumulators, check_inputs
\* and the index list.
K_EvalStart ==
    /\ pc = "K_eval"
    /\ mode' = "eval"
    /\ acc' = None
    /\ IF check_inputs(data)
          THEN /\ data_idxs' = RangeList(data.nf)
               /\ i' = 1
               /\ Goto("K_eval_item")
          ELSE /\ Raise("AssertionError")
               /\ UNCHANGED <<data_idxs, i>>
    /\ UNCHANGED <<inputs, disk, data, config, weights, grad, epoch, loss,
                   tr_loss, logged, ret, evalMode, trace>>

\* _eval, lines 22-44: the tensors of the next index are moved to
\* args.device, args being the module's global (_eval has no such
\* parameter; NameError when it is unbound), then one forward pass under
\* no_grad for the next index
\* and its rows appended to the accumulators; the body is followed by
\* line 45.  When the index list is exhausted the function ends without a
\* return statement.
K_EvalItem ==
    /\ pc = "K_eval_item"
    /\ IF i <= Len(data_idxs) /\ ~args_global
          THEN /\ Raise("NameError")
               /\ UNCHANGED <<acc, i, trace>>
          ELSE IF i <= Len(data_idxs)
          THEN LET idx == data_idxs[i]
                   label == data.labels[idx + 1]
               IN /\ EmitAt("eval_forward", idx)
                  /\ acc' = IF acc = None
                              THEN [y_trues |-> ArgMaxRows(label),
                                    y_preds |-> Predict(idx, label),
                                    gs_labels |-> label]
                              ELSE [y_trues |-> acc.y_trues \o ArgMaxRows(label),
                                    y_preds |-> acc.y_preds \o Predict(idx, label),
                                    gs_labels |-> acc.gs_labels \o label]
                  /\ i' = i + 1
                  /\ Goto("K_eval_return")
          ELSE /\ Goto("K_eval_end")
               /\ UNCHANGED <<acc, i, trace>>
    /\ UNCHANGED <<inputs, disk, data, modelv, data_idxs, epoch, loss,
                   tr_loss, logged, ret, evalMode>>

\* _eval, line 45: return y_trues, y_preds, gs_labels, pred_labels, a
\* statement of the loop body.
K_EvalReturn ==
    /\ pc = "K_eval_return"
    /\ ret' = acc
    /\ Return
    /\ UNCHANGED <<inputs, disk, data, modelv, loopv, acc, evalMode, trace>>

\* _eval left by exhausting the loop: the call evaluates to None.
K_EvalEnd ==
    /\ pc = "K_eval_end"
    /\ ret' = None
    /\ Return
    /\ UNCHANGED <<inputs, disk, data, modelv, loopv, acc, evalMode, trace>>

\* test, line 117: the call of _eval.
K_Test ==
    /\ pc = "K_test"
    /\ Call("K_eval", "K_test_metrics")
    /\ UNCHANGED <<inputs, disk, data, modelv, loopv, evalv, trace>>

\* test, lines 117-123: the returned tuple is unpacked (None cannot be)
\* and accuracy and AUC are computed over it; a one-class macro AUC is
\* undefined, reported by raising or by a warning depending on the metric
\* library's version.
K_TestMetrics ==
    /\ pc = "K_test_metrics"
    /\ \/ /\ ret = None
          /\ Raise("TypeError")
          /\ UNCHANGED trace
       \/ /\ ret # None
          /\ ~BothClasses(ret.gs_labels)
          /\ Raise("ValueError")
          /\ UNCHANGED trace
       \/ /\ ret # None
          /\ Emit("metrics")
          /\ Return
    /\ UNCHANGED <<inputs, disk, data, modelv, loopv, evalv>>

\* -------------------------------------------------------------- K: main

\* the model types K's main accepts, line 135
K_SupportedModels == {"lstm", "tlstm", "clstm", "ctlstm"}

\* main, lines 128-137: seeds and the model-type assertion.
K_Main ==
    /\ pc = "K_main"
    /\ IF args.model \in K_SupportedModels
          THEN Goto("K_main_train")
          ELSE Raise("AssertionError")
    /\ UNCHANGED <<inputs, disk, data, modelv, loopv, evalv, trace>>

\* main, lines 140-141: with do_train, a log line and nothing else.
K_MainTrain ==
    /\ pc = "K_main_train"
    /\ IF args.do_train THEN Emit("log_start_training")
                        ELSE UNCHANGED trace
    /\ Goto("K_main_test")
    /\ UNCHANGED <<inputs, disk, data, modelv, loopv, evalv>>

\* main, lines 144-145: with do_test, a log line and nothing else.
K_MainTest ==
    /\ pc = "K_main_test"
    /\ IF args.do_test THEN Emit("log_start_test")
                       ELSE UNCHANGED trace
    /\ Goto("done")
    /\ UNCHANGED <<inputs, disk, data, modelv, loopv, evalv>>

K_Next ==
    \/ K_TrainCheck \/ K_TrainFp16 \/ K_EpochHead \/ K_ItemHead
    \/ K_Forward \/ K_Backward \/ K_Clip \/ K_OptStep \/ K_ZeroGrad
    \/ K_TrainReturn \/ K_EvalStart \/ K_EvalItem \/ K_EvalReturn
    \/ K_EvalEnd \/ K_Test \/ K_TestMetrics
    \/ K_Main \/ K_MainTrain \/ K_MainTest

\* ========================================== M: src/mix_features/task.py

\* the model types M's main accepts, line 21
M_SupportedModels == {"clstm", "ctlstm"}

\* main, lines 14-23: seeds and the model-type assertion.
M_Main ==
    /\ pc = "M_main"
    /\ IF args.model \in M_SupportedModels
          THEN Goto("M_load")
          ELSE Raise("AssertionError")
    /\ UNCHANGED <<inputs, disk, data, modelv, loopv, evalv, trace>>

\* main, lines 30-34: both pickles are loaded and the input dims read
\* from the training data.
M_Load ==
    /\ pc = "M_load"
    /\ trace' = trace \o <<Ev("load_train"), Ev("load_test")>>
    /\ Goto("M_loaders")
    /\ UNCHANGED <<inputs, disk, data, modelv, loopv, evalv>>

\* main, lines 36-38: the two data loaders.
M_Loaders ==
    /\ pc = "M_loaders"
    /\ trace' = trace \o <<Ev("train_loader"), Ev("test_loader")>>
    /\ Goto("M_runner")
    /\ UNCHANGED <<inputs, disk, data, modelv, loopv, evalv>>

\* main, line 41: task_runner = SeqEHRTrainer(args)
M_Runner ==
    /\ pc = "M_runner"
    /\ Emit("trainer")
    /\ Goto("M_train")
    /\ UNCHANGED <<inputs, disk, data, modelv, loopv, evalv>>

\* Variant of M_Train: training runs whatever do_train says.
M_Train_always ==
    /\ pc = "M_train"
    /\ Emit("runner_train")
    /\ Goto("M_predict")
    /\ UNCHANGED <<inputs, disk, data, modelv, loopv, evalv>>

\* main, lines 44-46: with do_train, task_runner.train(train_data_loader)
M_Train ==
    /\ pc = "M_train"
    /\ IF args.do_train THEN Emit("runner_train")
                        ELSE UNCHANGED trace
    /\ Goto("M_predict")
    /\ UNCHANGED <<inputs, disk, data, modelv, loopv, evalv>>

\* main, lines 49-51: with do_test,
\* task_runner.predict(test_data_loader, do_eval=args.do_eval)
M_Predict ==
    /\ pc = "M_predict"
    /\ IF args.do_test
          THEN Emit(IF args.do_eval THEN "runner_predict_eval"
                                    ELSE "runner_predict")
          ELSE UNCHANGED trace
    /\ Goto("done")
    /\ UNCHANGED <<inputs, disk, data, modelv, loopv, evalv>>

M_Next ==
    \/ M_Main \/ M_Load \/ M_Loaders \/ M_Runner \/ M_Train \/ M_Predict

Next == T_Next \/ K_Next \/ M_Next

Spec == Init /\ [][Next]_vars

\* ============================================================ properties
HasOp(op) == \E k \in 1..Len(trace) : trace[k][1] = op
Count(op) == Cardinality({ k \in 1..Len(trace) : trace[k][1] = op })
IsEntry(s, f) == entry.script = s /\ entry.fn = f

StepOps == {"forward", "backward", "clip", "step", "zero_grad"}
ComputeOps == StepOps \cup {"train_eval_forward", "test_eval_forward",
                            "eval_forward"}
SaveOps == {"save_weights", "save_config"}

\* The phase of T's main an operation belongs to.
Phase(op) ==
    CASE op = "load_train" -> 1
      [] op = "build_model" -> 2
      [] op \in StepOps \cup {"amp_initialize"} -> 3
      [] op \in {"train_eval_forward", "train_eval_metrics"} -> 4
      [] op = "save_weights" -> 5
      [] op = "save_config" -> 6
      [] OTHER -> 7

\* C1: a run of T's main with do_train issues its operations in phase
\* order (load, build, training steps, training-set evaluation, save of
\* weights, save of config); nothing is written to disk before all
\* train_epochs * N steps and the training-set evaluation are done, and a
\* run that saved the config went through every phase.
C1_PhaseOrder ==
    (IsEntry("T", "main") /\ args.do_train) =>
        /\ \A a, b \in 1..Len(trace) :
              a < b => Phase(trace[a][1]) <= Phase(trace[b][1])
        /\ ~HasOp("save_weights") => disk.weights \in {NoFile, OldWeights}
        /\ ~HasOp("save_config") => disk.config \in {NoFile, OldConfig}
        /\ pc \in {"T_save_weights", "T_save_config"} =>
              /\ Count("step") = args.train_epochs * data.nf
              /\ HasOp("train_eval_metrics")
              /\ weights.steps = Count("step")
        /\ HasOp("save_config") =>
              /\ \A op \in {"load_train", "build_model", "train_eval_metrics",
                            "save_weights"} : Count(op) = 1
              /\ Count("train_eval_forward") * args.train_epochs
                    = Count("step")

C1_Witness ==
    /\ IsEntry("T", "main") /\ args.do_train
    /\ pc = "T_main_test"
    /\ HasOp("save_config")
    /\ Count("step") >= 2

\* C2: a direct call of train, test or _eval (T) or of train, test or
\* _eval (K, through check_inputs) with collections of unequal length
\* ends in an AssertionError without any forward pass, backward pass or
\* optimizer step; with equal lengths no AssertionError is raised.
C2_LengthCheck ==
    (entry.fn \in {"train", "test", "_eval"}) =>
        /\ ~SameLength(data) =>
              /\ \A k \in 1..Len(trace) : trace[k][1] \notin ComputeOps
              /\ pc \in {EntryLabel(entry), "K_eval", "error"}
              /\ pc = "error" => err = "AssertionError"
        /\ SameLength(data) => err # "AssertionError"

C2_Witness ==
    /\ entry.fn \in {"train", "test", "_eval"}
    /\ ~SameLength(data)
    /\ pc = "error"
    /\ err = "AssertionError"

\* C3: when fp16 is requested and apex cannot be imported, train raises
\* ImportError before any training step: no forward pass, optimizer step
\* or evaluation of the training data happens and T's main writes no
\* file.  Without fp16 the import is not attempted and no ImportError
\* occurs.
C3_ImportError ==
    /\ (args.fp16 /\ ~apex) =>
          /\ \A k \in 1..Len(trace) :
                trace[k][1] \notin StepOps \cup SaveOps
                   \cup {"amp_initialize", "train_eval_forward", "eval_forward"}
          /\ disk \in Disks
          /\ pc \notin {"T_epoch", "K_epoch", "T_save_weights", "T_save_config"}
          /\ (entry.fn = "train" /\ SameLength(data) /\ pc = "error")
                => err = "ImportError"
    /\ err = "ImportError" => (args.fp16 /\ ~apex)
    /\ ~args.fp16 => ~HasOp("amp_initialize")
    /\ (entry.fn = "train" /\ ~args.fp16 /\ pc \in {"T_eval", "K_test", "done"})
          => Count("step") = args.train_epochs * data.nf

C3_Witness ==
    /\ IsEntry("T", "main")
    /\ args.do_train /\ args.do_test
    /\ args.fp16 /\ ~apex
    /\ pc = "error"
    /\ err = "ImportError"

\* The positions of T's main inside its test phase: the call of test and
\* the evaluation it runs.
InTestPhase ==
    \/ pc \in {"T_test", "T_test_ret"}
    \/ pc \in {"T_eval", "T_eval_item", "T_eval_metrics"} /\ evalMode = "test"

\* The config T's main derives from the training pickles: the feature
\* width and the width of the first label array.
TrainedConfig ==
    [input_dim |-> InputDim, output_dim |-> Len(LabelBatch(0)[1])]

\* C4, states.  T's main reaches its test phase only through the load of
\* the config and the load of the weights; every forward pass and metric
\* of the test phase comes after a load of the config followed by a load
\* of the weights, with no model built from training data, no training
\* step and no save in between.  The model that receives the weights is a
\* new one (initial parameters, no gradients, training mode), and from
\* the load on the model carries the config and the weights of the files.
\* Without a training phase the files are the ones found on disk.  With a
\* training phase the weights file holds the weights after the last
\* optimizer step and the config file the config of the trained model,
\* both written before the config is loaded, and these are what the
\* tested model carries.
C4_State ==
    IsEntry("T", "main") =>
        /\ InTestPhase => HasOp("load_config") /\ HasOp("load_weights")
        /\ \A k \in 1..Len(trace) :
              trace[k][1] \in {"test_eval_forward", "test_eval_metrics"} =>
                 \E a, b \in 1..(k - 1) :
                    /\ a < b
                    /\ trace[a][1] = "load_config"
                    /\ trace[b][1] = "load_weights"
                    /\ \A c \in a..k :
                          trace[c][1] \notin
                             StepOps \cup SaveOps \cup {"build_model"}
        /\ pc = "T_load_weights" =>
              /\ HasOp("load_config")
              /\ config = disk.config
              /\ weights = FreshWeights
              /\ grad = ZeroGrad
              /\ mode = "train"
        /\ HasOp("load_weights") =>
              /\ HasOp("load_config")
              /\ disk.weights # NoFile /\ disk.config # NoFile
              /\ weights = disk.weights
              /\ config = disk.config
        /\ (~args.do_train /\ HasOp("load_config")) =>
              /\ disk = [weights |-> OldWeights, config |-> OldConfig]
              /\ ~HasOp("build_model")
        /\ args.do_train =>
              /\ HasOp("save_weights") =>
                    disk.weights = [base |-> "init", steps |-> Count("step")]
              /\ HasOp("save_config") => disk.config = TrainedConfig
              /\ HasOp("load_config") =>
                    \E a, b, c \in 1..Len(trace) :
                       /\ a < b /\ b < c
                       /\ trace[a][1] = "save_weights"
                       /\ trace[b][1] = "save_config"
                       /\ trace[c][1] = "load_config"
              /\ HasOp("load_config") => config = TrainedConfig
              /\ HasOp("load_weights") =>
                    weights = [base |-> "init", steps |-> Count("step")]

\* C4, steps.  The save of the weights writes the parameters of the
\* trained model, which has taken every optimizer step of the run; the
\* save of the config writes the config that model was built from; after
\* a training phase the load of the config reads back that same config;
\* the load of the weights puts the content of the weights file into the
\* new model; and no step after the saves changes a file.
C4_Step ==
    IsEntry("T", "main") =>
        /\ pc = "T_save_weights" =>
              /\ disk'.weights = weights
              /\ weights.steps = Count("step")
              /\ disk'.config = disk.config
        /\ pc = "T_save_config" =>
              /\ disk'.config = config
              /\ disk'.weights = disk.weights
        /\ (pc = "T_load_config" /\ args.do_train /\ pc' # "error") =>
              config' = config
        /\ (pc = "T_load_weights" /\ pc' # "error") =>
              /\ weights' = disk.weights
              /\ weights' # None
              /\ config' = config
        /\ pc \notin {"T_save_weights", "T_save_config"} => disk' = disk
        /\ HasOp("load_weights") => weights' = weights /\ config' = config

\* C4: in T's main the test phase evaluates a model rebuilt from the
\* config file and the weights file, never the model held in memory by
\* the training phase; when the run also trained, the config and weights
\* loaded are the ones saved at the end of that training phase, and the
\* tested weights are the weights after the last optimizer step.
C4_SaveLoadRoundTrip == [](C4_State) /\ [][C4_Step]_vars

C4_Witness ==
    /\ IsEntry("T", "main")
    /\ args.do_train /\ args.do_test
    /\ HasOp("test_eval_forward")
    /\ HasOp("test_eval_metrics")
    /\ weights = [base |-> "init", steps |-> Count("step")]
    /\ weights.steps >= 2
    /\ config = TrainedConfig
    /\ pc = "done"

\* C5: a run of K's main with do_train and a supported model type loads
\* the data, builds the model, trains, evaluates and persists weights and
\* config; with do_test it evaluates.
C5_TaskMainPipeline ==
    (IsEntry("K", "main") /\ pc = "done") =>
        /\ args.do_train =>
              \A op \in {"load_train", "build_model", "metrics",
                         "save_weights", "save_config"} : HasOp(op)
        /\ args.do_test => HasOp("metrics")

\* C6: K's _eval hands test the rows of all N >= 1 data items, in input
\* order, after one forward pass per item.
C6_EvalAccumulatesAll ==
    (entry.script = "K" /\ pc = "K_test_metrics" /\ data.nf >= 1) =>
        /\ ret # None
        /\ ret.gs_labels = Rows(data.labels, RangeList(data.nf))
        /\ ret.y_trues = ArgMaxRows(Rows(data.labels, RangeList(data.nf)))
        /\ Count("eval_forward") = data.nf

\* the four operations of one training step, in order
CycleOp(k) ==
    CASE k = 0 -> "forward"
      [] k = 1 -> "backward"
      [] k = 2 -> "step"
      [] OTHER -> "zero_grad"
IsCycleOp(e) == e[1] \in {"forward", "backward", "step", "zero_grad"}
IsForward(e) == e[1] = "forward"

InTrainLoop ==
    pc \in {"T_epoch", "T_item", "T_forward", "T_backward", "T_step", "T_zero",
            "K_epoch", "K_item", "K_forward", "K_backward", "K_clip",
            "K_step", "K_zero"}

\* train has left its loop and not yet returned
AfterTrainLoop ==
    \/ pc \in {"T_train_ret", "K_train_ret"}
    \/ pc \in {"T_eval", "T_eval_item", "T_eval_metrics"} /\ evalMode = "train"
    \/ /\ IsEntry("K", "train")
       /\ pc \in {"K_test", "K_eval", "K_eval_item", "K_eval_return",
                  "K_eval_end", "K_test_metrics"}

\* C7: with train_epochs = E and N aligned items the training loop of T
\* and of K ends after exactly E * N steps; each step is forward,
\* backward, optimizer step, zero_grad on one index, in that order; the
\* gradients are zero when a step starts; and no training operation
\* follows an evaluation forward pass.
C7_TrainingLoop ==
    /\ pc \in {"T_forward", "K_forward"} => grad = ZeroGrad
    /\ LET S == SelectSeq(trace, IsCycleOp)
       IN \A k \in 1..Len(S) :
             /\ S[k][1] = CycleOp((k - 1) % 4)
             /\ (k - 1) % 4 # 0 => S[k][2] = S[k - 1][2]
    /\ InTrainLoop => Count("step") <= args.train_epochs * data.nf
    /\ AfterTrainLoop =>
          /\ Count("step") = args.train_epochs * data.nf
          /\ Count("zero_grad") = Count("step")
          /\ weights.steps = args.train_epochs * data.nf
          /\ epoch = args.train_epochs
    /\ \A a, b \in 1..Len(trace) :
          (a < b /\ trace[a][1] \in {"train_eval_forward", "eval_forward"})
             => trace[b][1] \notin StepOps

C7_Witness ==
    /\ IsEntry("K", "train")
    /\ pc = "K_train_ret"
    /\ args.train_epochs = 2
    /\ data.nf = 2
    /\ Count("step") = 4

\* C8: every optimizer step of train, in T and in K, is taken on
\* gradients clipped after the backward pass of the same step.
C8_ClipBeforeStep ==
    /\ pc \in {"T_step", "K_step"} => grad.clipped
    /\ \A k \in 1..Len(trace) :
          trace[k][1] = "step" =>
             /\ k > 1
             /\ trace[k - 1] = <<"clip", trace[k][2]>>

\* C9: in train the index list is always a rearrangement of 0..N-1 (in T
\* the list 0..N-1 itself), and every completed epoch has run exactly one
\* forward pass on each index.
C9_EpochCoversAll ==
    InTrainLoop =>
        /\ Len(data_idxs) = data.nf
        /\ \A x \in 0..(data.nf - 1) :
              Cardinality({ k \in 1..Len(data_idxs) : data_idxs[k] = x }) = 1
        /\ entry.script = "T" => data_idxs = RangeList(data.nf)
        /\ pc \in {"T_epoch", "K_epoch"} =>
              LET F == SelectSeq(trace, IsForward)
              IN /\ Len(F) = epoch * data.nf
                 /\ \A e \in 0..(epoch - 1) : \A x \in 0..(data.nf - 1) :
                       Cardinality({ k \in 1..data.nf :
                                       F[e * data.nf + k][2] = x }) = 1

C9_Witness ==
    /\ IsEntry("K", "train")
    /\ pc = "K_epoch"
    /\ epoch = 2
    /\ data_idxs = <<1, 0>>
    /\ data.nf = 2

\* C10: M's main lets lstm, tlstm, clstm and ctlstm through its
\* assertion and rejects every other model type with an AssertionError
\* before anything is loaded or created.
C10_MixModelTypes ==
    IsEntry("M", "main") =>
        /\ args.model \in {"lstm", "tlstm", "clstm", "ctlstm"}
              => err # "AssertionError"
        /\ args.model \notin {"lstm", "tlstm", "clstm", "ctlstm"} =>
              /\ trace = <<>>
              /\ pc \in {"M_main", "error"}
              /\ pc = "error" => err = "AssertionError"

M_SetupOps == {"load_train", "load_test", "train_loader", "test_loader",
               "trainer"}
M_PredictOps == {"runner_predict", "runner_predict_eval"}

\* C11: in M's main both pickles are loaded and both data loaders and the
\* trainer are created before any training or prediction; a completed run
\* has trained iff do_train and predicted iff do_test; training precedes
\* prediction; predict is called with do_eval exactly when do_eval is set;
\* with neither flag the run ends after the setup alone.
C11_MixMainFlags ==
    IsEntry("M", "main") =>
        /\ \A k \in 1..Len(trace) :
              trace[k][1] \in M_PredictOps \cup {"runner_train"} =>
                 \A op \in M_SetupOps :
                    \E a \in 1..(k - 1) : trace[a][1] = op
        /\ HasOp("runner_train") => args.do_train
        /\ (\E op \in M_PredictOps : HasOp(op)) => args.do_test
        /\ HasOp("runner_predict_eval") => args.do_eval
        /\ HasOp("runner_predict") => ~args.do_eval
        /\ \A a, b \in 1..Len(trace) :
              (trace[a][1] \in M_PredictOps /\ trace[b][1] = "runner_train")
                 => b < a
        /\ (pc = "M_predict" /\ args.do_train) => HasOp("runner_train")
        /\ pc = "done" =>
              /\ Count("runner_train") = (IF args.do_train THEN 1 ELSE 0)
              /\ Count("runner_predict") + Count("runner_predict_eval")
                    = (IF args.do_test THEN 1 ELSE 0)
              /\ (~args.do_train /\ ~args.do_test) => Len(trace) = 5

C11_Witness ==
    /\ IsEntry("M", "main")
    /\ args.do_train /\ args.do_test /\ args.do_eval
    /\ pc = "done"
    /\ trace[Len(trace) - 1][1] = "runner_train"
    /\ trace[Len(trace)][1] = "runner_predict_eval"

\* C12: the e-th "training loss" log line of train (T and K) carries the
\* losses of all steps of epochs 1..e, summed and never reset, over the
\* divisor e: with N items of step loss StepLoss each the accumulator is
\* e * N * StepLoss and the logged quotient is N * StepLoss at every epoch.
C12_LoggedLoss ==
    (InTrainLoop \/ AfterTrainLoop) =>
        /\ Len(logged) = epoch
        /\ \A e \in 1..Len(logged) :
              /\ logged[e][2] = e
              /\ logged[e][1] = e * data.nf * StepLoss
              /\ logged[e][1] % logged[e][2] = 0
              /\ logged[e][1] \div logged[e][2] = data.nf * StepLoss
        /\ tr_loss = Count("zero_grad") * StepLoss
        /\ pc \in {"T_epoch", "K_epoch"} =>
              tr_loss = epoch * data.nf * StepLoss

C12_Witness ==
    /\ InTrainLoop
    /\ data.nf = 2
    /\ Len(logged) = 2
    /\ logged[2] = <<4 * StepLoss, 2>>
    /\ logged[1] = <<2 * StepLoss, 1>>

\* positions inside a training step after its forward pass
AfterForward == pc \in {"T_backward", "T_step", "T_zero",
                        "K_backward", "K_clip", "K_step", "K_zero"}

\* positions inside _eval after its model.eval()
InEvalBody == pc \in {"T_eval_item", "T_eval_metrics",
                      "K_eval_item", "K_eval_return", "K_eval_end"}

InEval == pc \in {"T_eval", "K_eval"} \/ InEvalBody

\* The model is in training mode once a training step's forward pass has
\* run, in evaluation mode throughout the body of _eval, and in
\* evaluation mode when train is about to return.
C13_ModeState ==
    /\ AfterForward => mode = "train"
    /\ InEvalBody => mode = "eval"
    /\ pc \in {"T_train_ret", "K_train_ret"} => mode = "eval"
    /\ \A k \in 1..Len(trace) :
          (trace[k][1] \in {"train_eval_forward", "test_eval_forward",
                            "eval_forward"} /\ k = Len(trace))
             => (mode = "eval" \/ pc = "error")

\* A statement of _eval leaves the parameters and the gradients as they
\* are and issues no backward pass, clipping, optimizer step or zero_grad.
C13_EvalStep ==
    InEval =>
        /\ weights' = weights
        /\ grad' = grad
        /\ \A k \in 1..Len(trace') :
              k > Len(trace) => trace'[k][1] \notin StepOps

=============================================================================
